---- MODULE Spec2Model ----
(***************************************************************************)
(* Model of mest_chat_logging.py: the menu and chat loop of main(), the    *)
(* Chatbot session object (history, identifiers, backend handle) and the   *)
(* "Chatbot" logger with its two handlers.                                 *)
(*                                                                         *)
(* Text is a sequence of one-character strings, so that str.strip,         *)
(* str.lower, the f-string of the apology and substring containment are    *)
(* computed rather than assumed.  A dict is a record; the JSON text that   *)
(* json.dumps produces from a dict of strings, numbers and None is         *)
(* represented by the object it denotes, tagged with "json".               *)
(***************************************************************************)
EXTENDS Integers, Sequences, FiniteSets, TLC

(* ---------------------------- bounds ----------------------------------- *)

\* number of Chatbot.chat calls explored in one run of main()
MaxTurns == 2

(* ---------------------------- text ------------------------------------- *)

\* the characters for which str.isspace() is true, which str.strip() removes;
\* a character TLA+ cannot write in a string is denoted by its Python escape
\* ("\\x0b" is the one character '\x0b', "\\u2028" the one character '\u2028')
Whitespace == {
    "\t", "\n", "\\x0b", "\f", "\r", "\\x1c", "\\x1d", "\\x1e", "\\x1f", " ",
    "\\x85", "\\xa0", "\\u1680", "\\u2000", "\\u2001", "\\u2002", "\\u2003",
    "\\u2004", "\\u2005", "\\u2006", "\\u2007", "\\u2008", "\\u2009", "\\u200a",
    "\\u2028", "\\u2029", "\\u202f", "\\u205f", "\\u3000" }

UpperCase == <<"A","B","C","D","E","F","G","H","I","J","K","L","M",
               "N","O","P","Q","R","S","T","U","V","W","X","Y","Z">>

LowerCase == <<"a","b","c","d","e","f","g","h","i","j","k","l","m",
               "n","o","p","q","r","s","t","u","v","w","x","y","z">>

\* str.lower on one character
LowerChar(c) ==
    IF \E i \in 1..Len(UpperCase) : UpperCase[i] = c
    THEN LowerCase[CHOOSE i \in 1..Len(UpperCase) : UpperCase[i] = c]
    ELSE c

\* str.lower
Lower(s) == [i \in 1..Len(s) |-> LowerChar(s[i])]

\* str.strip(): drop the whitespace at both ends, keep what is between
Strip(s) ==
    LET keep == {i \in 1..Len(s) : s[i] \notin Whitespace}
    IN  IF keep = {} THEN <<>>
        ELSE LET lo == CHOOSE i \in keep : \A j \in keep : i <= j
                 hi == CHOOSE i \in keep : \A j \in keep : j <= i
             IN  SubSeq(s, lo, hi)

\* Python's `needle in text`
Contains(text, needle) ==
    \E i \in 0..(Len(text) - Len(needle)) :
        SubSeq(text, i + 1, i + Len(needle)) = needle

IsPrefix(s, t) == Len(s) <= Len(t) /\ SubSeq(t, 1, Len(s)) = s

Exit == <<"e","x","i","t">>

(* ---------------------------- inputs ----------------------------------- *)

\* lines typed at "enter choice (1, 2, or 3): "
MenuLines == { <<"\f","1">>, <<"\\x0b","2">>, <<"\\xa0","3","\t">>,
               <<"4">>, <<" ">>, <<"1"," ","2">> }

\* lines typed at "You: "
ChatLines == { <<"e","x","i","t">>, <<"\\x0b","E","x","I","T"," ">>,
               <<>>, <<" ","\t","\\u2028">>,
               <<"\f","H","i","\\u3000">>, <<"e","x","i","t"," ","1">> }

\* reply texts a backend may return
Replies == { <<"h","i"," ","t","h","e","r","e">>, <<"o","k">> }

\* str(e) of the exceptions a backend call may raise
Errors == { <<"r","a","t","e"," ","l","i","m","i","t","e","d">> }

\* response.usage of a completion response: absent, or its total_tokens
Usages == { [present |-> FALSE, total_tokens |-> 0],
            [present |-> TRUE, total_tokens |-> 12] }

\* values uuid.uuid4() may return
Uuids == { "uuid-a", "uuid-b" }

\* what a backend call does: return a response, raise an error, or be cut
\* short by an interrupt signal (KeyboardInterrupt)
Outcomes ==
    [kind : {"reply"}, text : Replies, err : {<<>>}, usage : Usages]
    \cup [kind : {"raise"}, text : {<<>>}, err : Errors,
          usage : {[present |-> FALSE, total_tokens |-> 0]}]
    \cup [kind : {"interrupt"}, text : {<<>>}, err : {<<>>},
          usage : {[present |-> FALSE, total_tokens |-> 0]}]

\* clock ticks a backend round trip may take
Latencies == {0, 1}

(* ---------------------------- logging ---------------------------------- *)

\* numeric levels of the logging module
INFO == 20

WARNING == 30

ERROR == 40

LevelName(levelno) == IF levelno = ERROR THEN "ERROR"
                      ELSE IF levelno = INFO THEN "INFO" ELSE "WARNING"

\* setup_logging adds a FileHandler and a StreamHandler, in this order
setup_logging(handlers) == handlers \o <<"file", "console">>

\* Logger.getEffectiveLevel: the logger's level is never set, so the level
\* of the root logger (WARNING by default) applies
EffectiveLevel == WARNING

\* Logger.isEnabledFor
isEnabledFor(levelno) == levelno >= EffectiveLevel

\* json.dumps of a log entry
JsonDumps(entry) == [json |-> entry]

\* the line a handler writes: the file handler formats "%(message)s", the
\* console handler "%(asctime)s - %(levelname)s - %(message)s"
Format(handler, now, levelno, msg) ==
    IF handler = "file" THEN [message |-> msg]
    ELSE [asctime |-> now, levelname |-> LevelName(levelno), message |-> msg]

\* the lines of one sink after Logger.log(levelno, msg)
Emit(sink, name, handlers, now, levelno, msg) ==
    IF isEnabledFor(levelno)
    THEN sink \o [i \in 1..Cardinality({j \in 1..Len(handlers) : handlers[j] = name})
                    |-> Format(name, now, levelno, msg)]
    ELSE sink

\* every record of `logs` (a sequence of [levelno, now, entry]) passed to the
\* logger in order, seen from one sink
RECURSIVE EmitAll(_, _, _, _)
EmitAll(sink, name, handlers, logs) ==
    IF logs = <<>> THEN sink
    ELSE EmitAll(Emit(sink, name, handlers, logs[1].now, logs[1].levelno,
                      JsonDumps(logs[1].entry)),
                 name, handlers, Tail(logs))

(* ---------------------------- Chatbot ---------------------------------- *)

\* Python's None, and a present optional value
None == <<>>

Some(v) == <<v>>

SystemContent == <<
    "Y","o","u"," ","a","r","e"," ","a"," ","h","e","l",
    "p","f","u","l"," ","a","s","s","i","s","t","a","n",
    "t"," ","t","h","a","t"," ","c","a","n"," ","a","n",
    "s","w","e","r"," ","q","u","e","s","t","i","o","n",
    "s"," ","a","n","d"," ","h","e","l","p"," ","w","i",
    "t","h"," ","t","a","s","k","." >>

SystemMessage == [role |-> "system", content |-> SystemContent]

ApologyPrefix == <<
    "S","o","r","r","y",","," ","s","o","m","e","t","h",
    "i","n","g"," ","e","v","i","l"," ","h","a","p","p",
    "e","n","e","d"," ","i","n"," ","t","h","e"," ","u",
    "n","i","v","e","r","s","e",":"," " >>

\* the handle initialize_client returns; `model` is the model bound to the
\* handle itself ("" for an OpenAI client, which takes the model per request)
initialize_client(ollama, gemini) ==
    IF gemini
    THEN [api |-> "genai.GenerativeModel", model |-> "gemini-2.5-flash",
          base_url |-> "", api_key |-> "env:GEMINI_API_KEY"]
    ELSE IF ollama
    THEN [api |-> "OpenAI", model |-> "",
          base_url |-> "http://localhost:11434/v1", api_key |-> "ollama"]
    ELSE [api |-> "OpenAI", model |-> "",
          base_url |-> "", api_key |-> "env:OPEN_API_KEY"]

\* mutant of ModelName: the use_ollama test is inverted
ModelNameInverted(ollama, gemini) ==
    IF gemini THEN "gemini-1.5-flash"
    ELSE IF ollama THEN "gpt-4o-mini" ELSE "llama3.2:8b"

\* Chatbot.__init__: self.model_name
ModelName(ollama, gemini) ==
    IF gemini THEN "gemini-1.5-flash"
    ELSE IF ~ollama THEN "gpt-4o-mini" ELSE "llama3.2:8b"

\* the handle of a session that is not constructed yet
NoClient == [api |-> "", model |-> "", base_url |-> "", api_key |-> ""]

\* mutant of AppendUser: an unanswered user message is overwritten
AppendUserReplacing(msgs, text) ==
    IF msgs[Len(msgs)].role = "user"
    THEN [msgs EXCEPT ![Len(msgs)] = [role |-> "user", content |-> text]]
    ELSE Append(msgs, [role |-> "user", content |-> text])

\* self.message.append({"role": "user", "content": user_input})
AppendUser(msgs, text) == Append(msgs, [role |-> "user", content |-> text])

\* mutant of AppendAssistant: the reply is not recorded
AppendAssistantOmitted(msgs, text) == msgs

\* self.message.append({"role": "assistant", "content": assistant_response})
AppendAssistant(msgs, text) ==
    Append(msgs, [role |-> "assistant", content |-> text])

\* mutant of Dispatch: the generative chat is started with the local history
DispatchWithHistory(self, msgs, text) ==
    IF self.use_gemini
    THEN [method |-> "start_chat.send_message", model |-> self.client.model,
          history |-> msgs, content |-> text]
    ELSE [method |-> "chat.completions.create", model |-> self.model_name,
          messages |-> msgs]

\* mutant of Dispatch: only the current user message is sent as context
DispatchLastOnly(self, msgs, text) ==
    IF self.use_gemini
    THEN [method |-> "start_chat.send_message", model |-> self.client.model,
          history |-> <<>>, content |-> text]
    ELSE [method |-> "chat.completions.create", model |-> self.model_name,
          messages |-> <<msgs[Len(msgs)]>>]

\* the request the backend receives: a new chat with history=[] and the
\* input text for the generative handle, otherwise the model name and the
\* whole message list
Dispatch(self, msgs, text) ==
    IF self.use_gemini
    THEN [method |-> "start_chat.send_message", model |-> self.client.model,
          history |-> <<>>, content |-> text]
    ELSE [method |-> "chat.completions.create", model |-> self.model_name,
          messages |-> msgs]

\* the log entry built before dispatching
UserInputEntry(self, now) ==
    [timestamp |-> now, level |-> "INFO", type |-> "user_input",
     metadata |-> [user_id |-> self.user_id,
                   session_id |-> self.session_id,
                   model |-> self.model_name]]

\* the log entry built after a reply was extracted
ModelResponseEntry(self, outcome, now, response_time) ==
    [timestamp |-> now, level |-> "INFO", type |-> "model_response",
     model_response |-> outcome.text,
     metadata |-> [session_id |-> self.session_id,
                   model |-> self.model_name,
                   response_time |-> response_time,
                   tokens_used |->
                       IF ~self.use_gemini /\ outcome.usage.present
                       THEN Some(outcome.usage.total_tokens) ELSE None]]

\* the log entry built in the except clause
ErrorEntry(self, err, now) ==
    [timestamp |-> now, level |-> "ERROR", type |-> "error",
     error_message |-> err,
     metadata |-> [session_id |-> self.session_id,
                   model |-> self.model_name,
                   user_id |-> self.user_id]]

\* mutant of Apology: the error text is left out
ApologyWithoutError(err) == ApologyPrefix

\* f"Sorry, something evil happened in the universe: {str(e)}"
Apology(err) == ApologyPrefix \o err

\* mutant of Caught: the except clause catches nothing
CaughtNothing(kind) == FALSE

\* `except Exception` catches what a backend raises, but not the
\* KeyboardInterrupt of an interrupt signal arriving during the call
Caught(kind) == kind = "raise"

\* Chatbot.chat: the new history, the records passed to the logger, the
\* request sent, the value returned (or that the call raised), the clock
Chat(self, text, outcome, latency, now) ==
    LET msgs == AppendUser(self.message, text)
        req  == Dispatch(self, msgs, text)
        end  == now + latency
        first == [levelno |-> INFO, now |-> now,
                  entry |-> UserInputEntry(self, now)]
    IN  IF outcome.kind = "reply"
        THEN [message  |-> AppendAssistant(msgs, outcome.text),
              logs     |-> <<first,
                             [levelno |-> INFO, now |-> end,
                              entry |-> ModelResponseEntry(self, outcome, end,
                                                           end - now)]>>,
              request  |-> req,
              raised   |-> FALSE,
              returned |-> outcome.text,
              clock    |-> end]
        ELSE IF Caught(outcome.kind)
        THEN [message  |-> msgs,
              logs     |-> <<first,
                             [levelno |-> ERROR, now |-> end,
                              entry |-> ErrorEntry(self, outcome.err, end)]>>,
              request  |-> req,
              raised   |-> FALSE,
              returned |-> Apology(outcome.err),
              clock    |-> end]
        ELSE [message  |-> msgs,
              logs     |-> <<first>>,
              request  |-> req,
              raised   |-> TRUE,
              returned |-> <<>>,
              clock    |-> end]

(* ---------------------------- state ------------------------------------ *)

VARIABLES
    pc,            \* where main() is: "menu", "chat" (the loop) or "done"
    choice,        \* main: the stripped line last read at the menu
    use_ollama,    \* Chatbot.use_ollama
    use_gemini,    \* Chatbot.use_gemini
    session_id,    \* Chatbot.session_id ("" before construction)
    user_id,       \* Chatbot.user_id ("" before construction)
    client,        \* Chatbot.client
    model_name,    \* Chatbot.model_name
    message,       \* Chatbot.message, the conversation history
    handlers,      \* the handlers of logging.getLogger("Chatbot")
    file_log,      \* the lines of chatbot_logs.json
    console_log,   \* the lines the StreamHandler wrote
    emitted,       \* the log entries passed to logger.info / logger.error
    calls,         \* one record per Chatbot.chat call, in call order
    user_input,    \* main: the stripped line last read at "You: "
    response,      \* main: the value the last chat call returned
    printed,       \* the last thing main printed
    exit_status,   \* exit status of the process once pc = "done"
    clock          \* the value datetime.now() returns

vars == <<pc, choice, use_ollama, use_gemini, session_id, user_id, client,
          model_name, message, handlers, file_log, console_log, emitted,
          calls, user_input, response, printed, exit_status, clock>>

chatbot == <<use_ollama, use_gemini, session_id, user_id, client, model_name,
             message, handlers>>

logs == <<file_log, console_log, emitted>>

\* the Chatbot instance as chat sees it
Self == [session_id |-> session_id, user_id |-> user_id, client |-> client,
         use_ollama |-> use_ollama, use_gemini |-> use_gemini,
         model_name |-> model_name, message |-> message]

Line(kind, text) == [line |-> kind, text |-> text]

\* the process has printed the menu and waits for the choice
Init ==
    /\ pc = "menu"
    /\ choice = <<>>
    /\ use_ollama = FALSE
    /\ use_gemini = FALSE
    /\ session_id = ""
    /\ user_id = ""
    /\ client = NoClient
    /\ model_name = ""
    /\ message = <<>>
    /\ handlers = <<>>
    /\ file_log = <<>>
    /\ console_log = <<>>
    /\ emitted = <<>>
    /\ calls = <<>>
    /\ user_input = <<>>
    /\ response = <<>>
    /\ printed = Line("3. Google Gemini", <<>>)
    /\ exit_status = 0
    /\ clock = 0

ValidChoices == { <<"1">>, <<"2">>, <<"3">> }

\* main, menu loop: a line that is not 1, 2 or 3 reprompts
MenuInvalid ==
    /\ pc = "menu"
    /\ \E raw \in MenuLines :
        /\ Strip(raw) \notin ValidChoices
        /\ choice' = Strip(raw)
        /\ printed' = Line("Please enter 1, 2, or 3", <<>>)
    /\ UNCHANGED <<pc, chatbot, logs, calls, user_input, response,
                   exit_status, clock>>

\* main, menu loop: a valid choice constructs the Chatbot and prints the banner
MenuSelect ==
    /\ pc = "menu"
    /\ \E raw \in MenuLines, sid \in Uuids, uid \in Uuids :
        /\ Strip(raw) \in ValidChoices
        /\ sid # uid
        /\ choice' = Strip(raw)
        /\ use_ollama' = (Strip(raw) = <<"2">>)
        /\ use_gemini' = (Strip(raw) = <<"3">>)
        /\ handlers' = setup_logging(handlers)
        /\ session_id' = sid
        /\ user_id' = uid
        /\ client' = initialize_client(use_ollama', use_gemini')
        /\ model_name' = ModelName(use_ollama', use_gemini')
        /\ message' = <<SystemMessage>>
        /\ printed' = Line("Session ID", <<>>)
    /\ pc' = "chat"
    /\ UNCHANGED <<logs, calls, user_input, response, exit_status, clock>>

\* main, chat loop: "exit" in any letter case ends the loop
ChatExit ==
    /\ pc = "chat"
    /\ \E raw \in ChatLines :
        /\ Lower(Strip(raw)) = Exit
        /\ user_input' = Strip(raw)
    /\ printed' = Line("Goodbye!", <<>>)
    /\ pc' = "done"
    /\ UNCHANGED <<choice, chatbot, logs, calls, response, exit_status, clock>>

\* main, chat loop: a blank line reprompts
ChatBlank ==
    /\ pc = "chat"
    /\ \E raw \in ChatLines :
        /\ Lower(Strip(raw)) # Exit
        /\ Strip(raw) = <<>>
        /\ user_input' = Strip(raw)
    /\ UNCHANGED <<pc, choice, chatbot, logs, calls, response, printed,
                   exit_status, clock>>

\* main, chat loop: any other line is passed to Chatbot.chat and the value
\* returned is printed; a KeyboardInterrupt leaving chat ends the process
ChatTurn ==
    /\ pc = "chat"
    /\ Len(calls) < MaxTurns
    /\ \E raw \in ChatLines, outcome \in Outcomes, latency \in Latencies :
        LET text == Strip(raw)
            r    == Chat(Self, text, outcome, latency, clock)
        IN  /\ Lower(text) # Exit
            /\ text # <<>>
            /\ user_input' = text
            /\ message' = r.message
            /\ emitted' = emitted \o [i \in 1..Len(r.logs) |-> r.logs[i].entry]
            /\ file_log' = EmitAll(file_log, "file", handlers, r.logs)
            /\ console_log' = EmitAll(console_log, "console", handlers, r.logs)
            /\ calls' = Append(calls, [user_input |-> text,
                                       outcome |-> outcome,
                                       request |-> r.request,
                                       raised |-> r.raised,
                                       returned |-> r.returned])
            /\ clock' = r.clock
            /\ IF r.raised
               THEN /\ pc' = "done"
                    /\ printed' = Line("Chat session ended by user.", <<>>)
                    /\ UNCHANGED response
               ELSE /\ pc' = "chat"
                    /\ printed' = Line("Bot: ", r.returned)
                    /\ response' = r.returned
    /\ UNCHANGED <<choice, use_ollama, use_gemini, session_id, user_id,
                   client, model_name, handlers, exit_status>>

\* an interrupt signal while main waits in input(): the KeyboardInterrupt
\* is caught around main()
Interrupt ==
    /\ pc \in {"menu", "chat"}
    /\ pc' = "done"
    /\ printed' = Line("Chat session ended by user.", <<>>)
    /\ UNCHANGED <<choice, chatbot, logs, calls, user_input, response,
                   exit_status, clock>>

\* the input stream ends while main waits in input(): EOFError is not
\* caught and the process ends with a traceback
EndOfInput ==
    /\ pc \in {"menu", "chat"}
    /\ pc' = "done"
    /\ printed' = Line("EOFError", <<>>)
    /\ exit_status' = 1
    /\ UNCHANGED <<choice, chatbot, logs, calls, user_input, response, clock>>

Next ==
    \/ MenuInvalid
    \/ MenuSelect
    \/ ChatExit
    \/ ChatBlank
    \/ ChatTurn
    \/ Interrupt
    \/ EndOfInput

Spec == Init /\ [][Next]_vars

(* ---------------------------- properties ------------------------------- *)

Constructed == session_id # ""

UserMessage(text) == [role |-> "user", content |-> text]

AssistantMessage(text) == [role |-> "assistant", content |-> text]

Replied(c) == c.outcome.kind = "reply"

Failed(c) == c.outcome.kind = "raise"

\* this step is one call of Chatbot.chat
ChatStep == Len(calls') = Len(calls) + 1

LastCall == calls[Len(calls)]

\* C1: after N calls of chat that all succeeded, the history is the system
\* message followed by N (user, assistant) pairs in call order, the k-th
\* pair holding the k-th input text and the k-th reply text; its length is
\* 1 + 2N.
C1_HistoryAfterSuccesses ==
    (Constructed /\ \A k \in 1..Len(calls) : Replied(calls[k]))
    => /\ Len(message) = 1 + 2 * Len(calls)
       /\ message[1] = SystemMessage
       /\ \A k \in 1..Len(calls) :
            /\ message[2 * k] = UserMessage(calls[k].user_input)
            /\ message[2 * k + 1] = AssistantMessage(calls[k].returned)
            /\ calls[k].returned = calls[k].outcome.text

C1_Witness ==
    /\ Len(calls) = 2
    /\ \A k \in 1..2 : Replied(calls[k])
    /\ calls[1].returned # calls[2].returned
    /\ Len(message) = 5

\* C2 (as claimed): every chat call that returns has written exactly one
\* user_input record followed by exactly one model_response or error record
\* to the log file and to the console.
C2_LoggingComplete ==
    (\A k \in 1..Len(calls) : ~calls[k].raised)
    => \A sink \in {file_log, console_log} :
        /\ Len(sink) = 2 * Len(calls)
        /\ \A k \in 1..Len(calls) :
            /\ sink[2 * k - 1].message.json.type = "user_input"
            /\ sink[2 * k].message.json.type =
                 (IF Replied(calls[k]) THEN "model_response" ELSE "error")

\* C3 (as claimed): session id and user id never change once set, and every
\* log entry the instance emits carries both in its metadata.
C3_IdsOnEveryRecord ==
    /\ [][Constructed => session_id' = session_id /\ user_id' = user_id]_vars
    /\ [](\A i \in 1..Len(emitted) :
            /\ "session_id" \in DOMAIN emitted[i].metadata
            /\ emitted[i].metadata.session_id = session_id
            /\ "user_id" \in DOMAIN emitted[i].metadata
            /\ emitted[i].metadata.user_id = user_id)

\* C4: a chat call whose backend call raises returns (it does not raise)
\* the apology string, which contains the error text, and leaves the
\* history equal to the history before the call plus the user message.
C4_FailureIsolation ==
    [][(ChatStep /\ Failed(calls'[Len(calls')]))
       => /\ ~calls'[Len(calls')].raised
          /\ response' = calls'[Len(calls')].returned
          /\ IsPrefix(ApologyPrefix, response')
          /\ Contains(response', calls'[Len(calls')].outcome.err)
          /\ message' = Append(message, UserMessage(user_input'))
          /\ pc' = "chat"]_vars

C4_Witness ==
    /\ calls # <<>>
    /\ Failed(LastCall)
    /\ message[Len(message)] = UserMessage(LastCall.user_input)
    /\ Contains(response, LastCall.outcome.err)

\* C5: the first element of the history is always the system message, and
\* every step only extends the history at its end (the old history is a
\* prefix of the new one).
C5_AppendOnly ==
    /\ [](Constructed => message # <<>> /\ message[1] = SystemMessage)
    /\ [][IsPrefix(message, message')]_vars

C5_Witness ==
    /\ Len(calls) = 2
    /\ Failed(calls[1])
    /\ Replied(calls[2])
    /\ Len(message) = 4

\* the variant a session dispatches to
Variant ==
    IF use_gemini THEN "CloudGenerative"
    ELSE IF use_ollama THEN "LocalModel" ELSE "CloudCompletion"

\* C6: choice 1 gives the CloudCompletion variant, 2 the LocalModel variant
\* and 3 the CloudGenerative variant, each with its own fixed model name and
\* its own handle; variant and model name are functions of the choice, and
\* the two flags are never both set.
C6_Selection ==
    Constructed =>
        /\ choice \in ValidChoices
        /\ ~(use_ollama /\ use_gemini)
        /\ choice = <<"1">> =>
            /\ Variant = "CloudCompletion"
            /\ model_name = "gpt-4o-mini"
            /\ client.api = "OpenAI" /\ client.base_url = ""
        /\ choice = <<"2">> =>
            /\ Variant = "LocalModel"
            /\ model_name = "llama3.2:8b"
            /\ client.api = "OpenAI"
            /\ client.base_url = "http://localhost:11434/v1"
        /\ choice = <<"3">> =>
            /\ Variant = "CloudGenerative"
            /\ model_name = "gemini-1.5-flash"
            /\ client.api = "genai.GenerativeModel"

C6_Witness ==
    /\ pc = "chat"
    /\ choice = <<"2">>
    /\ Variant = "LocalModel"
    /\ calls # <<>>

\* the loop ended because "exit" was read
EndedByExit == printed'.line = "Goodbye!" /\ Lower(user_input') = Exit

\* the loop ended because of a KeyboardInterrupt
EndedByInterrupt == printed'.line = "Chat session ended by user."

\* the loop ended because input() raised EOFError
EndedByEndOfInput == printed'.line = "EOFError" /\ exit_status' = 1

\* a line was read at "You: " that is neither blank nor "exit"
ReadsChatLine ==
    /\ pc = "chat"
    /\ (~EndedByInterrupt \/ ChatStep)
    /\ ~EndedByEndOfInput
    /\ user_input' # <<>>
    /\ Lower(user_input') # Exit

\* a failed send does not end the loop, and a non-blank line is passed on
SendKeepsLoop ==
    /\ (ChatStep /\ Failed(calls'[Len(calls')])) => pc' = "chat"
    /\ ReadsChatLine =>
        /\ ChatStep
        /\ calls'[Len(calls')].user_input = user_input'

\* C7 (as claimed): the loop ends only on "exit" in any letter case or on an
\* interrupt; a failed send never ends it and the next non-blank input is
\* passed to chat.
C7_OnlyExitOrInterrupt ==
    [][/\ (pc = "chat" /\ pc' = "done") => (EndedByExit \/ EndedByInterrupt)
       /\ SendKeepsLoop]_vars

\* C7 (amended): the loop ends only on "exit" in any letter case, on an
\* interrupt, or when the input stream ends (EOFError, exit status 1); a
\* failed send never ends it and the next non-blank input is passed to chat.
C7_ExitInterruptOrEndOfInput ==
    [][/\ (pc = "chat" /\ pc' = "done")
            => (EndedByExit \/ EndedByInterrupt \/ EndedByEndOfInput)
       /\ SendKeepsLoop]_vars

C7_Witness ==
    /\ pc = "chat"
    /\ Len(calls) = 2
    /\ Failed(calls[1])
    /\ calls[2].user_input = user_input

\* C8: with the generative variant every chat call starts a chat with an
\* empty history and sends only the input text, while the local history
\* gains the user message and, on success, the assistant message.
C8_GenerativeFreshExchange ==
    /\ [](use_gemini =>
            \A k \in 1..Len(calls) :
                /\ calls[k].request.method = "start_chat.send_message"
                /\ calls[k].request.history = <<>>
                /\ calls[k].request.content = calls[k].user_input)
    /\ [][(use_gemini /\ ChatStep) =>
            message' = message \o
                (IF Replied(calls'[Len(calls')])
                 THEN <<UserMessage(user_input'),
                        AssistantMessage(calls'[Len(calls')].outcome.text)>>
                 ELSE <<UserMessage(user_input')>>)]_vars

C8_Witness ==
    /\ use_gemini
    /\ Len(calls) = 2
    /\ Replied(calls[1])
    /\ Len(message) >= 4
    /\ calls[2].request.history = <<>>

\* length of the history when the k-th call dispatches
ContextLen(k) ==
    1 + k + Cardinality({j \in 1..(k - 1) : Replied(calls[j])})

\* C9: with the two completion variants the context of every call is the
\* whole history at that moment, ending with the current user message; after
\* a failed call the next context ends with the unanswered user message
\* directly followed by the new one.
C9_WholeHistoryAsContext ==
    (Constructed /\ ~use_gemini) =>
        \A k \in 1..Len(calls) :
            LET ctx == calls[k].request.messages
            IN  /\ Len(ctx) = ContextLen(k)
                /\ ctx = SubSeq(message, 1, Len(ctx))
                /\ ctx[Len(ctx)] = UserMessage(calls[k].user_input)
                /\ (k > 1 /\ Failed(calls[k - 1])) =>
                     ctx[Len(ctx) - 1] = UserMessage(calls[k - 1].user_input)

C9_Witness ==
    /\ ~use_gemini
    /\ Len(calls) = 2
    /\ Failed(calls[1])
    /\ Len(calls[2].request.messages) = 3

\* C10 (as claimed): the model name stored in the session and written into
\* every log entry is the model the backend handle invokes.
C10_LoggedModelIsInvoked ==
    \A k \in 1..Len(calls) :
        /\ calls[k].request.model = model_name
        /\ \A i \in 1..Len(emitted) :
            emitted[i].metadata.model = calls[k].request.model
====
